---- MODULE Spec2Model ----
(***************************************************************************)
(* A model of the configjs shape engine: the shape builders, the operation *)
(* pipeline, and parse of the leaf shapes, Object, Array and Union.        *)
(*                                                                         *)
(* A JavaScript value is a tagged record; a thrown exception is the        *)
(* outcome Throw(e) and a returned value the outcome Ret(v), so try/catch  *)
(* is a case distinction on the outcome.  Paths are strings, built with    *)
(* the same concatenations as the template literals of the source.         *)
(***************************************************************************)
EXTENDS Integers, Sequences, FiniteSets, TLC

VARIABLES shape, pc, out, cyc, heap, driver

vars == <<shape, pc, out, cyc, heap, driver>>

-----------------------------------------------------------------------------
(* Bounds *)

MaxOps == 2

MaxStack == 6

MaxPre == 1

-----------------------------------------------------------------------------
(* JavaScript values *)

UNDEF == [t |-> "undefined"]

NULL == [t |-> "null"]

NaN == [t |-> "nan"]

Num(n) == [t |-> "number", n |-> n]

Str(s) == [t |-> "string", s |-> s]

Bool(b) == [t |-> "boolean", b |-> b]

Obj(f) == [t |-> "object", f |-> f]

Arr(e) == [t |-> "array", e |-> e]

EmptyObj == Obj(<<>>)

IsNullish(v) == v.t \in {"undefined", "null"}

TypeofNumber(v) == v.t \in {"number", "nan"}

\* JavaScript truthiness, as used by `this._default` in a condition
Truthy(v) ==
    CASE v.t \in {"undefined", "null", "nan"} -> FALSE
      [] v.t = "number" -> v.n # 0
      [] v.t = "string" -> v.s # ""
      [] v.t = "boolean" -> v.b
      [] OTHER -> TRUE

\* { ...a, ...b } on the key maps of two objects
Spread(a, b) ==
    [k \in (DOMAIN a) \cup (DOMAIN b) |-> IF k \in DOMAIN b THEN b[k] ELSE a[k]]

\* the key map that `...v` contributes: nothing unless v is an object
SpreadOf(v) == IF v.t = "object" THEN v.f ELSE <<>>

-----------------------------------------------------------------------------
(* Outcomes and errors *)

Ret(v) == [ok |-> TRUE, v |-> v]

Throw(e) == [ok |-> FALSE, e |-> e]

ConfigShapeError(code, message, path, meta) ==
    [cls |-> "ConfigShapeError", code |-> code, message |-> message,
     path |-> path, meta |-> meta]

AggregateError(errors) ==
    [cls |-> "AggregateError", message |-> "Multiple validation errors",
     errors |-> errors]

\* an exception that is not the engine's: TypeError, RangeError, Error
ForeignError(name, message) == [cls |-> name, message |-> message]

IsConfigShapeError(e) == e.cls = "ConfigShapeError"

\* the options object a container hands to a child's parse
NoOpts == [present |-> FALSE, path |-> ""]

Opts(p) == [present |-> TRUE, path |-> p]

\* opts?.path ?? ''
OptsPath(opts) == IF opts.present THEN opts.path ELSE ""

\* { path: currentPath, ...opts }: a path in opts replaces the one written first
SpreadPath(currentPath, opts) == IF opts.present THEN opts.path ELSE currentPath

-----------------------------------------------------------------------------
(* Shapes and their builders *)

UNCONF == "_unconfigured_property"

BaseFields(type) ==
    [type |-> type, default |-> UNDEF, pretransforms |-> <<>>,
     prop |-> UNCONF, key |-> UNCONF, important |-> FALSE,
     optional |-> FALSE, nullable |-> FALSE, ops |-> <<>>, coerce |-> FALSE]

IsShape(x) == "type" \in DOMAIN x

NumberShape == BaseFields("number")

StringShape == BaseFields("string")

\* c.enum(values)
EnumShape(values) == BaseFields("enum") @@ [values |-> values]

HasTransform(s) == \E i \in 1..Len(s.ops) : s.ops[i].type = "transform"

default(s, value) ==
    IF ~HasTransform(s)
    THEN [s EXCEPT !.default = value]
    ELSE [s EXCEPT !.pretransforms = Append(@, value)]

important(s) == [s EXCEPT !.important = TRUE]

optional(s) == [s EXCEPT !.optional = TRUE]

nullable(s) == [s EXCEPT !.nullable = TRUE]

coerce(s) == [s EXCEPT !.coerce = TRUE]

prop(s, p) == [s EXCEPT !.prop = p]

\* the n of an operation is the number of the builder call that made it
TransformOp(fn, n) ==
    [type |-> "transform", fn |-> fn, message |-> "Invalid transform",
     code |-> "TRANSFORM_ERROR", n |-> n]

RefineOp(fn, n) ==
    [type |-> "refine", fn |-> fn, message |-> "Invalid " \o fn,
     code |-> "VALIDATION_ERROR", n |-> n]

\* _clone copies the fields and the two lists; as a value it is the shape
clone(s) == s

\* a plausible slip: the transform is appended like a refinement
transformAppended(s, fn) ==
    [clone(s) EXCEPT !.ops = Append(@, TransformOp(fn, Len(s.ops) + 1))]

\* newShape._operations.unshift({type: 'transform', ...})
transform(s, fn) ==
    [clone(s) EXCEPT !.ops = <<TransformOp(fn, Len(s.ops) + 1)>> \o @]

refine(s, fn) == [s EXCEPT !.ops = Append(@, RefineOp(fn, Len(s.ops) + 1))]

-----------------------------------------------------------------------------
(* The user functions handed to transform and refine *)

TransformFns == {"inc", "dbl", "toU", "boom"}

RefineFns == {"even", "lt3", "boom"}

\* v => { throw new Error("boom") }, as a transform and as a predicate
FnThrows(fn, v) == fn = "boom"

\* the exception the throwing function raises
Boom == ForeignError("Error", "boom")

\* new Set(arr).size for the array a parse has built: primitives are the same
\* member when they are the same value, while every object and every array in
\* it is an object of its own, the same as no other member
SetSize(arr) ==
    Cardinality({arr[i] : i \in {j \in 1..Len(arr) : arr[j].t \notin {"object", "array"}}})
        + Cardinality({j \in 1..Len(arr) : arr[j].t \in {"object", "array"}})

\* v => v + 1, v => v * 2, v => undefined
TransformFn(fn, v) ==
    CASE fn = "toU" -> UNDEF
      [] fn = "inc" /\ v.t = "number" -> Num(v.n + 1)
      [] fn = "dbl" /\ v.t = "number" -> Num(v.n * 2)
      [] fn = "inc" /\ v.t = "null" -> Num(1)
      [] fn = "dbl" /\ v.t = "null" -> Num(0)
      [] OTHER -> NaN

\* v => v % 2 === 0, v => v < 3
RefineFn(fn, v) ==
    CASE fn = "unique" -> SetSize(v.e) = Len(v.e)
      [] v.t = "number" /\ fn = "even" -> v.n % 2 = 0
      [] v.t = "number" /\ fn = "lt3" -> v.n < 3
      [] v.t = "null" -> TRUE
      [] OTHER -> FALSE

-----------------------------------------------------------------------------
(* The base shape: error paths, the important check, the pipeline *)

\* prop !== '_unconfigured_property' ? `${path ? `${path}.` : ''}${prop}` : path
FullPath(s, path) ==
    IF s.prop # UNCONF
    THEN (IF path # "" THEN path \o "." ELSE "") \o s.prop
    ELSE path

\* createError(creator, value) with a creator that keeps the path it is given
createError(s, code, message, meta) ==
    Throw(ConfigShapeError(code, message, FullPath(s, ""), meta))

checkImportant(s, value) ==
    IF IsNullish(value) /\ s.important
    THEN Throw(ConfigShapeError("IMPORTANT_PROPERTY", "marked as required",
                                s.key \o " - (prop: '" \o s.prop \o "')", <<>>))
    ELSE Ret(value)

\* the catch around op.fn of a transform: code and message are those of the
\* operation, which transform() always sets, so the exception's are never used
TransformThrew(s, op, path) ==
    Throw(ConfigShapeError(op.code, op.message, FullPath(s, path), <<>>))

\* the loop of _applyOperations from operation i on; log lists what has run
RECURSIVE RunOps(_, _, _, _, _)
RunOps(s, i, value, path, log) ==
    IF i > Len(s.ops)
    THEN [res |-> Ret(value), log |-> log]
    ELSE LET op == s.ops[i]
             ran == Append(log, [n |-> op.n, type |-> op.type, seen |-> value])
         IN  IF op.type = "transform"
             THEN IF FnThrows(op.fn, value)
                  THEN [res |-> TransformThrew(s, op, path), log |-> ran]
                  ELSE RunOps(s, i + 1, TransformFn(op.fn, value), path, ran)
             ELSE IF FnThrows(op.fn, value)
                  THEN [res |-> Throw(Boom), log |-> ran]
             ELSE IF RefineFn(op.fn, value)
                  THEN RunOps(s, i + 1, value, path, ran)
                  ELSE [res |-> Throw(ConfigShapeError(op.code, op.message,
                                                       FullPath(s, path), <<>>)),
                        log |-> ran]

applyOperations(s, value, path) == RunOps(s, 1, value, path, <<>>).res

\* checkImportant(applyOperations(...)): the tail of every parse
Finish(s, value, path) ==
    LET r == applyOperations(s, value, path)
    IN  IF r.ok THEN checkImportant(s, r.v) ELSE r

-----------------------------------------------------------------------------
(* Shape constructors *)

\* processShapes: a child shape gets its key, and its prop unless prop() set one.
\* Only the children handed to the constructor are walked: a child that is an
\* Object shape is a BaseShape, so its own children are not visited again.
processShapes(fields) ==
    [i \in 1..Len(fields) |->
        IF IsShape(fields[i].s)
        THEN [k |-> fields[i].k,
              s |-> [fields[i].s EXCEPT
                        !.prop = IF @ = UNCONF THEN fields[i].k ELSE @,
                        !.key = fields[i].k]]
        ELSE fields[i]]

\* new ObjectShape(_shape); a field is [k |-> name, s |-> shape or literal]
ObjectShape(fields) ==
    BaseFields("object") @@
    [shape |-> processShapes(fields), partial |-> FALSE,
     minProperties |-> UNDEF, maxProperties |-> UNDEF]

ArrayShape(elem) == BaseFields("array") @@ [elem |-> elem]

UnionShape(shapes) == BaseFields("union") @@ [shapes |-> shapes]

\* c.record(keyShape, valueShape)
RecordShape(keyShape, valueShape) ==
    BaseFields("record") @@ [keyShape |-> keyShape, valueShape |-> valueShape]

\* ArrayShape.unique(): a refinement with its own code and message
unique(s) ==
    [s EXCEPT !.ops = Append(@, [type |-> "refine", fn |-> "unique",
                                 message |-> "Array must contain unique elements",
                                 code |-> "DUPLICATE_ITEMS", n |-> Len(s.ops) + 1])]

\* this._minProperties = min; this.partial()
minProperties(s, min) ==
    [s EXCEPT !.minProperties = Num(min), !.partial = TRUE,
              !.shape = [i \in 1..Len(s.shape) |->
                            IF IsShape(s.shape[i].s)
                            THEN [s.shape[i] EXCEPT !.s = optional(@)]
                            ELSE s.shape[i]]]

FieldKeys(s) == {s.shape[i].k : i \in 1..Len(s.shape)}

FieldOf(s, k) == (CHOOSE i \in 1..Len(s.shape) : s.shape[i].k = k)

\* ObjectShape.getDefaults: the defaults of the fields, never the shape's own
RECURSIVE getDefaults(_)
getDefaults(s) ==
    [k \in FieldKeys(s) |->
        LET c == s.shape[FieldOf(s, k)].s
        IN  IF ~IsShape(c) THEN c
            ELSE IF c.type = "object" THEN Obj(getDefaults(c))
            ELSE c.default]

\* deepEqual of functions.ts
RECURSIVE deepEqual(_, _)
deepEqual(a, b) ==
    IF a = b /\ a.t # "nan" THEN TRUE
    ELSE IF a.t \in {"null", "undefined"} \/ b.t \in {"null", "undefined"} THEN FALSE
    ELSE IF a.t = "array" /\ b.t = "array"
         THEN /\ Len(a.e) = Len(b.e)
              /\ \A i \in 1..Len(a.e) : deepEqual(a.e[i], b.e[i])
    ELSE IF a.t = "object" /\ b.t = "object"
         THEN /\ Cardinality(DOMAIN a.f) = Cardinality(DOMAIN b.f)
              /\ \A k \in DOMAIN a.f : k \in DOMAIN b.f /\ deepEqual(a.f[k], b.f[k])
    ELSE FALSE

-----------------------------------------------------------------------------
(* Leaf shapes *)

NumericStrings == {"0", "1", "5", "30"}

\* Number(value) of a string
ToNumber(str) ==
    IF str \in NumericStrings
    THEN Num(CHOOSE n \in 0..30 : ToString(n) = str)
    ELSE NaN

\* the coercion block of NumberShape.parse
CoerceNumber(s, value) ==
    CASE value.t \in {"null", "undefined"} -> Ret(Num(0))
      [] value.t = "string" /\ value.s = "" -> Ret(Num(0))
      [] value.t = "boolean" -> Ret(Num(IF value.b THEN 1 ELSE 0))
      [] value.t = "string" /\ value.s # "" ->
            IF ToNumber(value.s) = NaN
            THEN createError(s, "NOT_NUMBER", "Expected a number", <<>>)
            ELSE Ret(ToNumber(value.s))
      [] TypeofNumber(value) -> Ret(value)
      [] OTHER -> createError(s, "NOT_NUMBER", "Expected a number", <<>>)

\* NumberShape.parse up to the pipeline: the result if parse ends there,
\* otherwise the number the pipeline starts from
NumberPre(s, value0) ==
    LET value == IF value0 = UNDEF /\ Truthy(s.default) THEN s.default ELSE value0
    IN  IF value = UNDEF /\ s.optional THEN [done |-> TRUE, res |-> Ret(UNDEF)]
        ELSE IF value = NULL /\ s.nullable THEN [done |-> TRUE, res |-> Ret(NULL)]
        ELSE LET c == IF s.coerce THEN CoerceNumber(s, value) ELSE Ret(value)
             IN  IF ~c.ok THEN [done |-> TRUE, res |-> c]
                 ELSE IF ~TypeofNumber(c.v)
                      THEN [done |-> TRUE,
                            res |-> createError(s, "NOT_NUMBER", "Expected a number", <<>>)]
                      ELSE [done |-> FALSE, v |-> c.v]

\* NumberShape.parse
parseNumber(s, value, opts) ==
    LET p == NumberPre(s, value)
    IN  IF p.done THEN p.res ELSE Finish(s, p.v, s.key)

\* the operations NumberShape.parse runs on value, in the order it runs them
NumberLog(s, value) ==
    LET p == NumberPre(s, value)
    IN  IF p.done THEN <<>> ELSE RunOps(s, 1, p.v, s.key, <<>>).log

\* StringShape.parse; string shapes are built without coerce(), trim() or case
parseString(s, value0) ==
    LET value == IF value0 = UNDEF /\ Truthy(s.default) THEN s.default ELSE value0
    IN  IF value = UNDEF /\ s.optional THEN Ret(UNDEF)
        ELSE IF value = NULL /\ s.nullable THEN Ret(NULL)
        ELSE IF value.t # "string"
             THEN createError(s, "NOT_STRING", "Expected a string", <<>>)
             ELSE Finish(s, value, s.key)

\* values.join(', ') of string values
RECURSIVE JoinValues(_)
JoinValues(values) ==
    IF values = <<>> THEN ""
    ELSE IF Len(values) = 1 THEN values[1].s
    ELSE values[1].s \o ", " \o JoinValues(Tail(values))

\* EnumShape.parse: no default is substituted, and the optional and nullable
\* returns are taken only when a default is configured
parseEnum(s, value) ==
    IF value = UNDEF /\ s.optional /\ s.default # UNDEF THEN Ret(UNDEF)
    ELSE IF value = NULL /\ s.nullable /\ s.default # UNDEF THEN Ret(NULL)
    ELSE IF \A i \in 1..Len(s.values) : s.values[i] # value
         THEN createError(s, "INVALID_ENUM_VALUE",
                          "Value must be one of: " \o JoinValues(s.values),
                          <<[validValues |-> s.values]>>)
         ELSE Finish(s, value, s.key)

-----------------------------------------------------------------------------
(* parse, parseWithDefault, parseWithPath and the container shapes *)

RECURSIVE Parse(_, _, _)
RECURSIVE parseWithDefault(_, _)
RECURSIVE parseWithPath(_, _, _)
RECURSIVE parseObject(_, _, _)
RECURSIVE FieldLoop(_, _, _, _, _, _, _)
RECURSIVE parseArray(_, _, _)
RECURSIVE ElemLoop(_, _, _, _, _)
RECURSIVE parseUnion(_, _, _)
RECURSIVE MemberLoop(_, _, _, _)
RECURSIVE RecordLoop(_, _, _, _)
RECURSIVE RecordEntry(_, _, _, _, _, _)
RECURSIVE KeysOf(_)

\* BaseShape.parseWithDefault
parseWithDefault(s, value) ==
    IF value = UNDEF /\ s.default # UNDEF
    THEN applyOperations(s, s.default, "")
    ELSE Parse(s, value, NoOpts)

\* the try block of parseWithPath after parseWithDefault has returned parsed:
\* this._checkImportant(parsed); return this._applyOperations(parsed, path)
CheckAndApply(s, parsed, path) ==
    IF ~parsed.ok THEN parsed
    ELSE IF ~checkImportant(s, parsed.v).ok THEN checkImportant(s, parsed.v)
    ELSE applyOperations(s, parsed.v, path)

\* the catch block of parseWithPath: a ConfigShapeError is thrown again, any
\* other exception becomes a PARSE_ERROR
CatchParseError(s, r, path) ==
    IF r.ok \/ IsConfigShapeError(r.e) THEN r
    ELSE Throw(ConfigShapeError("PARSE_ERROR", r.e.message,
                                FullPath(s, path), <<>>))

\* BaseShape.parseWithPath: parse, the important check, and the pipeline again
parseWithPath(s, value, path) ==
    CatchParseError(s, CheckAndApply(s, parseWithDefault(s, value), path), path)

\* a variant in which an absent optional field is set to undefined
AbsentFieldSetUndefined(s, opts, fld, currentPath) ==
    IF fld.s.optional \/ s.partial
    THEN [kind |-> "entry", v |-> UNDEF]
    ELSE [kind |-> "throw",
          e |-> ConfigShapeError("MISSING_PROPERTY",
                  "Missing required property \"" \o fld.k \o "\"",
                  SpreadPath(currentPath, opts), <<>>)]

\* a field whose resolved value is undefined: continue when it is optional or
\* the object is partial, otherwise throw MISSING_PROPERTY
AbsentField(s, opts, fld, currentPath) ==
    IF fld.s.optional \/ s.partial
    THEN [kind |-> "skip"]
    ELSE [kind |-> "throw",
          e |-> ConfigShapeError("MISSING_PROPERTY",
                  "Missing required property \"" \o fld.k \o "\"",
                  SpreadPath(currentPath, opts), <<>>)]

\* the body of the try block for one field: skip, entry or a thrown error
TryField(s, value, merged, opts, fld, currentPath) ==
    LET c == fld.s
        inputVal == merged[fld.k]
    IN  IF IsShape(c)
        THEN LET missing == inputVal = UNDEF
                 resolvedVal == IF missing /\ c.default # UNDEF
                                THEN c.default ELSE inputVal
             IN  IF resolvedVal = UNDEF
                 THEN AbsentField(s, opts, fld, currentPath)
                 ELSE IF resolvedVal = NULL
                 THEN IF c.nullable
                      THEN [kind |-> "entry", v |-> NULL]
                      ELSE [kind |-> "throw",
                            e |-> ConfigShapeError("NOT_NULLABLE",
                                    "Property \"" \o fld.k \o "\" is not nullable",
                                    SpreadPath(currentPath, opts), <<>>)]
                 ELSE LET r == Parse(c, resolvedVal, Opts(currentPath))
                      IN  IF ~r.ok THEN [kind |-> "throw", e |-> r.e]
                          ELSE IF s.partial /\ IsNullish(r.v)
                          THEN [kind |-> "throw",
                                e |-> ForeignError("TypeError",
                                        "Cannot convert undefined or null to object")]
                          ELSE [kind |-> "entry", v |-> r.v]
        ELSE IF ~deepEqual(inputVal, c)
             THEN [kind |-> "throw",
                   e |-> ConfigShapeError("INVALID_LITERAL", "Expected literal value",
                                          SpreadPath(currentPath, opts), <<>>)]
             ELSE [kind |-> "entry", v |-> inputVal]

\* the for loop over Object.entries(this._shape), from field i on
FieldLoop(s, value, merged, opts, i, entries, errors) ==
    IF i > Len(s.shape)
    THEN [entries |-> entries, errors |-> errors]
    ELSE
      LET fld == s.shape[i]
          path == OptsPath(opts)
          currentPath == IF path # "" THEN path \o "." \o fld.k ELSE fld.k
          skipped ==
              \/ s.partial /\ fld.k \notin DOMAIN merged
              \/ IsShape(fld.s) /\ fld.s.type = "object" /\ fld.k \notin DOMAIN value.f
          t == TryField(s, value, merged, opts, fld, currentPath)
      IN  IF skipped \/ t.kind = "skip"
          THEN FieldLoop(s, value, merged, opts, i + 1, entries, errors)
          ELSE IF t.kind = "entry"
          THEN FieldLoop(s, value, merged, opts, i + 1,
                         Spread(entries, [k \in {fld.k} |-> t.v]), errors)
          ELSE FieldLoop(s, value, merged, opts, i + 1, entries,
                 Append(errors,
                    IF IsConfigShapeError(t.e) THEN t.e
                    ELSE ConfigShapeError("INVALID_PROPERTY",
                            "Invalid property \"" \o fld.k \o "\"",
                            SpreadPath(currentPath, opts), <<>>)))

\* the defaulted result for undefined or null: { ...shape_defaults, ...object_defaults }
DefaultsMerged(s) == Obj(Spread(getDefaults(s), SpreadOf(s.default)))

\* what ObjectShape.parse does once the field loop is over
ObjectTail(s, value, opts, loop) ==
    LET path == OptsPath(opts)
        result == Obj(loop.entries)
        nkeys == Cardinality(DOMAIN loop.entries)
    IN  IF s.minProperties # UNDEF /\ nkeys < s.minProperties.n
        THEN Throw(ConfigShapeError("TOO_FEW_PROPERTIES",
                     "Object must have at least n properties", path, <<>>))
        ELSE IF s.maxProperties # UNDEF /\ nkeys > s.maxProperties.n
        THEN Throw(ConfigShapeError("TOO_MANY_PROPERTIES",
                     "Object must have at most n properties", path, <<>>))
        ELSE IF Len(loop.errors) = 1 THEN Throw(loop.errors[1])
        ELSE IF Len(loop.errors) > 1 THEN Throw(AggregateError(loop.errors))
        ELSE Finish(s, result, path)

\* ObjectShape.parse
parseObject(s, value, opts) ==
    IF value = UNDEF /\ s.default # UNDEF THEN Ret(DefaultsMerged(s))
    ELSE IF value = UNDEF /\ s.optional THEN Ret(UNDEF)
    ELSE IF value = NULL /\ s.nullable THEN Ret(NULL)
    ELSE IF value = NULL /\ s.default # UNDEF THEN Ret(DefaultsMerged(s))
    ELSE IF value.t # "object"
    THEN Throw(ConfigShapeError("NOT_OBJECT", "Expected object", OptsPath(opts), <<>>))
    ELSE LET merged == Spread(Spread(getDefaults(s), SpreadOf(s.default)), value.f)
         IN  ObjectTail(s, value, opts,
                        FieldLoop(s, value, merged, opts, 1, <<>>, <<>>))

\* value.map(...) of ArrayShape.parse, from element i on
ElemLoop(s, value, opts, i, acc) ==
    IF i > Len(value.e) THEN Ret(Arr(acc))
    ELSE LET item == value.e[i]
             at == s.prop \o "[" \o ToString(i - 1) \o "]"
             r == IF IsShape(s.elem)
                  THEN parseWithPath(s.elem, item, at)
                  ELSE IF item # s.elem
                       THEN Throw(ConfigShapeError("INVALID_LITERAL", "Expected literal",
                                                   SpreadPath(at, opts), <<>>))
                       ELSE Ret(item)
         IN  IF r.ok THEN ElemLoop(s, value, opts, i + 1, Append(acc, r.v))
             ELSE IF IsConfigShapeError(r.e) THEN r
             ELSE createError(s, "INVALID_ARRAY_ELEMENT",
                              "Invalid array element at index " \o ToString(i - 1), <<>>)

\* ArrayShape.parse
parseArray(s, value0, opts) ==
    LET value == IF value0 = UNDEF /\ s.default # UNDEF THEN s.default ELSE value0
    IN  IF value = UNDEF /\ s.optional THEN Ret(UNDEF)
        ELSE IF value = NULL /\ s.nullable THEN Ret(NULL)
        ELSE IF value.t # "array"
             THEN createError(s, "NOT_ARRAY", "Expected an array", <<>>)
             ELSE LET r == ElemLoop(s, value, opts, 1, <<>>)
                  IN  IF r.ok THEN Finish(s, r.v, s.key) ELSE r

\* the for loop of UnionShape.parse, from candidate i on
MemberLoop(s, value, i, errors) ==
    IF i > Len(s.shapes)
    THEN createError(s, "NO_MATCHING_UNION_MEMBER",
                     "Value did not match any union member",
                     [j \in 1..Len(errors) |->
                        [code |-> errors[j].code, message |-> errors[j].message,
                         path |-> errors[j].path]])
    ELSE LET r == parseWithPath(s.shapes[i], value, s.prop)
         IN  IF r.ok THEN r
             ELSE MemberLoop(s, value, i + 1,
                    Append(errors,
                       IF IsConfigShapeError(r.e) THEN r.e
                       ELSE ConfigShapeError("UNKNOWN_ERROR", r.e.message, s.prop, <<>>)))

\* UnionShape.parse
parseUnion(s, value, opts) == MemberLoop(s, value, 1, <<>>)

\* this._checkImportant(this._applyOperations(result, this._key)) when the
\* loop has not thrown
FinishLoop(s, r) == IF r.ok THEN Finish(s, r.v, s.key) ELSE r

\* the keys of an object, one after the other
KeysOf(f) ==
    IF DOMAIN f = {} THEN <<>>
    ELSE LET k == CHOOSE k \in DOMAIN f : TRUE
         IN  <<[k |-> k, v |-> f[k]]>> \o KeysOf([j \in DOMAIN f \ {k} |-> f[j]])

\* what `for (const key in input)` visits: the keys of an object, the
\* indices of an array
ForIn(input) ==
    IF input.t = "array"
    THEN [i \in 1..Len(input.e) |-> [k |-> ToString(i - 1), v |-> input.e[i]]]
    ELSE KeysOf(input.f)

\* the body of the for-in loop once the key and the value are parsed:
\* result[parsedKey] = parsed, or the error of the first that threw
RecordEntry(s, entries, i, result, parsedKey, parsed) ==
    IF ~parsedKey.ok THEN parsedKey
    ELSE IF ~parsed.ok THEN parsed
    ELSE RecordLoop(s, entries, i + 1,
                    Spread(result, [k \in {parsedKey.v.s} |-> parsed.v]))

\* the for-in loop of RecordShape.parse, from entry i on
RecordLoop(s, entries, i, result) ==
    IF i > Len(entries) THEN Ret(Obj(result))
    ELSE RecordEntry(s, entries, i, result,
            parseWithPath(s.keyShape, Str(entries[i].k), s.prop \o "[key]"),
            parseWithPath(s.valueShape, entries[i].v,
                          s.prop \o "." \o entries[i].k))

\* RecordShape.parse
parseRecord(s, value0) ==
    LET value == IF value0 = UNDEF /\ s.default # UNDEF THEN s.default ELSE value0
    IN  IF value = UNDEF /\ s.optional THEN Ret(UNDEF)
        ELSE IF value = NULL /\ s.nullable THEN Ret(NULL)
        ELSE IF value.t \notin {"object", "array"}
             THEN Throw(ConfigShapeError("NOT_OBJECT", "Expected an object",
                                         FullPath(s, ""), <<>>))
             ELSE FinishLoop(s, RecordLoop(s, ForIn(value), 1, <<>>))

Parse(s, value, opts) ==
    CASE s.type = "number" -> parseNumber(s, value, opts)
      [] s.type = "string" -> parseString(s, value)
      [] s.type = "enum" -> parseEnum(s, value)
      [] s.type = "record" -> parseRecord(s, value)
      [] s.type = "object" -> parseObject(s, value, opts)
      [] s.type = "array" -> parseArray(s, value, opts)
      [] s.type = "union" -> parseUnion(s, value, opts)

\* a plausible slip: only the engine's own error type is caught
safeParseNarrowCatch(s, value) ==
    LET r == Parse(s, value, NoOpts)
    IN  IF r.ok THEN [threw |-> FALSE, success |-> TRUE, value |-> r.v, error |-> UNDEF]
        ELSE IF IsConfigShapeError(r.e)
        THEN [threw |-> FALSE, success |-> FALSE, value |-> UNDEF, error |-> r.e]
        ELSE [threw |-> TRUE, success |-> FALSE, value |-> UNDEF, error |-> r.e]

\* BaseShapeAbstract.safeParse: try { parse } catch (e) { ... }
safeParse(s, value) ==
    LET r == Parse(s, value, NoOpts)
    IN  IF r.ok THEN [threw |-> FALSE, success |-> TRUE, value |-> r.v, error |-> UNDEF]
        ELSE [threw |-> FALSE, success |-> FALSE, value |-> UNDEF, error |-> r.e]

-----------------------------------------------------------------------------
(* The schemas and inputs the model is run on *)

Field(k, s) == [k |-> k, s |-> s]

\* field shapes, each built by the builder calls it is written with
Kids ==
    {NumberShape, StringShape, optional(NumberShape),
     default(NumberShape, Num(5)), refine(NumberShape, "even")}

\* c.object({ name: k1, age: k2 })
Flat(k1, k2) == ObjectShape(<<Field("name", k1), Field("age", k2)>>)

\* c.object({ user: c.object({ name: k1, age: k2 }), id: c.number() })
Nested(k1, k2) ==
    ObjectShape(<<Field("user", Flat(k1, k2)), Field("id", NumberShape)>>)

\* c.object({ app: c.object({ user: c.object({ age: c.number() }) }) })
Deep ==
    ObjectShape(<<Field("app",
        ObjectShape(<<Field("user",
            ObjectShape(<<Field("age", NumberShape)>>))>>))>>)

\* c.object({ user: c.object({ age: c.number() }) })
TwoLevel == ObjectShape(<<Field("user", ObjectShape(<<Field("age", NumberShape)>>))>>)

\* c.object({ kind: "v1", age: c.number() }): a literal field and a shape
WithLiteral == ObjectShape(<<Field("kind", Str("v1")), Field("age", NumberShape)>>)

\* c.object({ name: c.string().optional(), user: c.object({...}).optional(),
\*            tags: c.array(c.string()).optional() })
AllOptional ==
    ObjectShape(<<Field("name", optional(StringShape)),
                  Field("user", optional(Flat(StringShape, NumberShape))),
                  Field("tags", optional(ArrayShape(StringShape)))>>)

ObjectRoots ==
    {Flat(k1, k2) : k1 \in Kids, k2 \in Kids} \cup
    {Nested(k1, k2) : k1 \in {NumberShape, StringShape}, k2 \in Kids} \cup
    {TwoLevel, Deep, WithLiteral, AllOptional}

Elems ==
    {StringShape, NumberShape, transform(NumberShape, "inc"),
     refine(NumberShape, "even"), Flat(StringShape, NumberShape)}

ArrayRoots ==
    {ArrayShape(e) : e \in Elems} \cup
    {ObjectShape(<<Field("tags", ArrayShape(StringShape))>>)}

Members ==
    {NumberShape, StringShape, transform(NumberShape, "inc"),
     refine(NumberShape, "lt3"), transform(refine(NumberShape, "lt3"), "dbl"),
     Flat(StringShape, NumberShape)}

UnionRoots == {UnionShape(<<a, b>>) : a \in Members, b \in Members}

Roots == {NumberShape, StringShape, EnumShape(<<Str("a"), Str("b")>>)} \cup ObjectRoots \cup ArrayRoots \cup UnionRoots

O2(k1, v1, k2, v2) == Obj([k \in {k1, k2} |-> IF k = k1 THEN v1 ELSE v2])

O1(k1, v1) == Obj([k \in {k1} |-> v1])

Primitives == {UNDEF, NULL, Num(1), Num(2), Str("x"), Str("5")}

FlatInputs ==
    {EmptyObj, O2("name", Str("John"), "age", Num(30)), O1("name", Str("John")),
     O2("name", Num(1), "age", Str("30")), O2("name", Str("John"), "age", Num(3)),
     O2("name", Num(4), "age", NULL), O2("kind", Str("v1"), "age", Num(1)),
     O2("kind", Str("v2"), "age", Str("x"))}

NestedInputs ==
    {O2("user", O2("name", Str("J"), "age", Num(30)), "id", Num(1)),
     O1("user", O1("age", Str("x"))),
     O2("user", EmptyObj, "id", Num(1)),
     O2("user", O2("name", NULL, "age", Str("x")), "id", Str("z")),
     O1("id", Num(1)),
     O1("app", O1("user", O1("age", Str("x")))),
     O1("app", O1("user", EmptyObj)),
     O1("tags", Arr(<<Str("a"), Num(5)>>))}

ArrayInputs ==
    {Arr(<<Str("a"), Num(5), Str("c")>>), Arr(<<Str("a"), Str("b")>>),
     Arr(<<Num(1), Num(2)>>), Arr(<<>>), Arr(<<Num(2), Str("a")>>),
     Arr(<<O2("name", Str("J"), "age", Num(1)), O1("name", Num(0))>>)}

\* the inputs tried on a shape: the primitives and the inputs of its kind
\* c.record(c.string(), v)
RecordRoots ==
    {RecordShape(StringShape, v) :
        v \in {NumberShape, refine(NumberShape, "even"), Flat(StringShape, NumberShape)}}

\* c.array(e).unique()
UniqueRoots ==
    {unique(ArrayShape(e)) :
        e \in {NumberShape, StringShape, Flat(StringShape, NumberShape),
               ArrayShape(NumberShape)}}

RecordInputs ==
    {EmptyObj, O2("a", Num(1), "b", Num(2)), O1("a", Str("x")),
     O1("u", O2("name", Str("J"), "age", Num(1))),
     Arr(<<>>), Arr(<<Num(2), Num(4)>>)}

UniqueInputs ==
    {Arr(<<>>), Arr(<<Num(1), Num(2)>>), Arr(<<Num(1), Num(1)>>),
     Arr(<<Str("x"), Str("y"), Str("x")>>),
     Arr(<<O2("name", Str("J"), "age", Num(1)), O2("name", Str("J"), "age", Num(1))>>),
     Arr(<<O2("name", Str("J"), "age", Num(1)), O2("name", Str("K"), "age", Num(1))>>),
     Arr(<<Arr(<<Num(1)>>), Arr(<<Num(1)>>)>>),
     Arr(<<Arr(<<Num(1)>>), Arr(<<Num(2)>>)>>)}

HasUnique(s) == \E i \in 1..Len(s.ops) : s.ops[i].fn = "unique"

InputsFor(s) ==
    Primitives \cup
    CASE s.type = "object" -> FlatInputs \cup NestedInputs
      [] s.type = "record" -> RecordInputs
      [] s.type = "array" /\ HasUnique(s) -> UniqueInputs
      [] s.type = "array" -> ArrayInputs
      [] s.type = "union" -> {O2("name", Str("J"), "age", Num(1)), EmptyObj}
      [] s.type = "enum" -> {Str("a"), Str("z")}
      [] OTHER -> {Num(0), Bool(TRUE), Str("")}

DefaultsFor(s) ==
    CASE s.type = "number" -> {Num(0), Num(5)}
      [] s.type = "string" -> {Str(""), Str("d")}
      [] s.type = "object" -> {O1("name", Str("Default"))}
      [] s.type = "array" -> {Arr(<<>>)}
      [] s.type = "enum" -> {Str("b")}
      [] s.type = "record" -> {O1("a", Num(2))}
      [] OTHER -> {Num(5)}

-----------------------------------------------------------------------------
(* The state machine: a shape is built by builder calls, then parsed *)

NoCall == [op |-> "none"]

CycIdle == [run |-> "idle"]

\* no shape objects on the heap
NoHeap == [lists |-> <<>>, shapes |-> <<>>]

\* no driver in use
NoDriver == [run |-> "idle"]

Init ==
    /\ shape \in Roots
    /\ pc = "build"
    /\ out = NoCall
    /\ heap = NoHeap
    /\ driver = NoDriver
    /\ cyc = CycIdle

Build(next) ==
    /\ pc = "build"
    /\ shape' = next
    /\ next # shape
    /\ UNCHANGED <<pc, out, cyc, heap, driver>>

CallOptional == Build(optional(shape))

CallNullable == Build(nullable(shape))

CallImportant == Build(important(shape))

CallCoerce == shape.type = "number" /\ Build(coerce(shape))

CallDefault ==
    /\ Len(shape.pretransforms) < MaxPre
    /\ \E v \in DefaultsFor(shape) : Build(default(shape, v))

CallRefine ==
    /\ shape.type = "number"
    /\ Len(shape.ops) < MaxOps
    /\ \E fn \in RefineFns : Build(refine(shape, fn))

CallTransform ==
    /\ shape.type = "number"
    /\ Len(shape.ops) < MaxOps
    /\ \E fn \in TransformFns : Build(transform(shape, fn))

CallMinProperties ==
    /\ shape.type = "object"
    /\ Build(minProperties(shape, 1))

DoParse ==
    /\ pc = "build"
    /\ \E v \in InputsFor(shape) :
          out' = [op |-> "parse", input |-> v, res |-> Parse(shape, v, NoOpts),
                  log |-> IF shape.type = "number" THEN NumberLog(shape, v) ELSE <<>>]
    /\ pc' = "called"
    /\ UNCHANGED <<shape, cyc, heap, driver>>

\* shape.parseWithPath(value, "items[0]"), as a container calls it on a child
DoParseWithPath ==
    /\ pc = "build"
    /\ \E v \in InputsFor(shape) :
          out' = [op |-> "parseWithPath", input |-> v,
                  res |-> parseWithPath(shape, v, "items[0]")]
    /\ pc' = "called"
    /\ UNCHANGED <<shape, cyc, heap, driver>>

DoSafeParse ==
    /\ pc = "build"
    /\ \E v \in InputsFor(shape) :
          out' = [op |-> "safeParse", input |-> v, res |-> safeParse(shape, v)]
    /\ pc' = "called"
    /\ UNCHANGED <<shape, cyc, heap, driver>>

Next ==
    \/ CallOptional
    \/ CallNullable
    \/ CallImportant
    \/ CallCoerce
    \/ CallDefault
    \/ CallRefine
    \/ CallTransform
    \/ CallMinProperties
    \/ DoParse
    \/ DoSafeParse
    \/ DoParseWithPath

Spec == Init /\ [][Next]_vars

\* Record shapes and arrays with unique(), built and parsed the same way
ContainerInit ==
    /\ shape \in RecordRoots \cup UniqueRoots
    /\ pc = "build"
    /\ out = NoCall
    /\ heap = NoHeap
    /\ driver = NoDriver
    /\ cyc = CycIdle

ContainerNext ==
    \/ CallOptional
    \/ CallNullable
    \/ CallImportant
    \/ CallDefault
    \/ DoParse

SpecContainers == ContainerInit /\ [][ContainerNext]_vars

-----------------------------------------------------------------------------
(* The object algebra: partial, pick, omit, merge *)

\* copyMetadata: every own field of the receiver but _type and _shape is copied
\* onto the new shape
copyMetadata(this, newShape) == [this EXCEPT !.shape = newShape.shape]

\* the field map partial() builds: shape.optional() sets the flag on the field
\* shape itself and returns it
PartialFields(s) ==
    [i \in 1..Len(s.shape) |->
        IF IsShape(s.shape[i].s)
        THEN [s.shape[i] EXCEPT !.s = optional(@)]
        ELSE s.shape[i]]

\* the receiver once partial() has returned: this._partial = true, and its
\* field shapes are the ones optional() was called on
partialReceiver(s) == [s EXCEPT !.partial = TRUE, !.shape = PartialFields(s)]

\* what partial() returns
partial(s) == copyMetadata(partialReceiver(s), ObjectShape(PartialFields(s)))

\* the fields deepPartial() builds its result from: shape.partial() for a
\* field that is an Object shape, shape.optional() for any other shape
DeepPartialFields(s) ==
    [i \in 1..Len(s.shape) |->
        IF IsShape(s.shape[i].s) /\ s.shape[i].s.type = "object"
        THEN [s.shape[i] EXCEPT !.s = partial(@)]
        ELSE IF IsShape(s.shape[i].s)
        THEN [s.shape[i] EXCEPT !.s = optional(@)]
        ELSE s.shape[i]]

\* the receiver once deepPartial() has returned: partial() and optional()
\* have changed its field shapes in place
deepPartialReceiver(s) ==
    [s EXCEPT !.shape =
        [i \in 1..Len(s.shape) |->
            IF IsShape(s.shape[i].s) /\ s.shape[i].s.type = "object"
            THEN [s.shape[i] EXCEPT !.s = partialReceiver(@)]
            ELSE IF IsShape(s.shape[i].s)
            THEN [s.shape[i] EXCEPT !.s = optional(@)]
            ELSE s.shape[i]]]

\* what deepPartial() returns
deepPartial(s) == copyMetadata(s, ObjectShape(DeepPartialFields(s)))

Range(seq) == {seq[i] : i \in 1..Len(seq)}

\* pick(keys): keys.map(key => [key, this._shape[key]]); a key the receiver
\* does not declare maps to undefined
pick(s, keys) ==
    copyMetadata(s, ObjectShape(
        [i \in 1..Len(keys) |->
            Field(keys[i], IF keys[i] \in FieldKeys(s)
                           THEN s.shape[FieldOf(s, keys[i])].s ELSE UNDEF)]))

RECURSIVE Without(_, _)
Without(fields, keys) ==
    IF fields = <<>> THEN <<>>
    ELSE IF Head(fields).k \in keys THEN Without(Tail(fields), keys)
    ELSE <<Head(fields)>> \o Without(Tail(fields), keys)

\* omit(keys): a copy of the field map with the keys deleted
omit(s, keys) == copyMetadata(s, ObjectShape(Without(s.shape, Range(keys))))

\* a variant in which the receiver's definition wins on a key of both
mergeReceiverWins(s, other) ==
    copyMetadata(s, ObjectShape(s.shape \o Without(other.shape, FieldKeys(s))))

\* merge(shape): { ...this._shape, ...shape._shape }
merge(s, other) ==
    copyMetadata(s, ObjectShape(
        [i \in 1..Len(s.shape) |->
            IF s.shape[i].k \in FieldKeys(other)
            THEN other.shape[FieldOf(other, s.shape[i].k)]
            ELSE s.shape[i]]
        \o Without(other.shape, FieldKeys(s))))

\* the key lists handed to pick and omit
KeyLists == {<<>>, <<"name">>, <<"age", "name">>, <<"email">>, <<"user">>}

\* the shapes handed to merge
MergeArgs ==
    {Flat(NumberShape, StringShape),
     ObjectShape(<<Field("age", StringShape), Field("email", StringShape)>>)}

AlgCall(op, derived, keys, other) ==
    [op |-> op, before |-> shape, derived |-> derived, keys |-> keys,
     other |-> other, target |-> "none", input |-> UNDEF, res |-> Ret(UNDEF)]

AlgInit ==
    /\ shape \in ObjectRoots
    /\ pc = "algebra"
    /\ out = NoCall
    /\ heap = NoHeap
    /\ driver = NoDriver
    /\ cyc = CycIdle

CallPartial ==
    /\ pc = "algebra"
    /\ out' = AlgCall("partial", partial(shape), <<>>, UNDEF)
    /\ shape' = partialReceiver(shape)
    /\ pc' = "derived"
    /\ UNCHANGED <<cyc, heap, driver>>

CallDeepPartial ==
    /\ pc = "algebra"
    /\ out' = AlgCall("deepPartial", deepPartial(shape), <<>>, UNDEF)
    /\ shape' = deepPartialReceiver(shape)
    /\ pc' = "derived"
    /\ UNCHANGED <<cyc, heap, driver>>

CallPick ==
    /\ pc = "algebra"
    /\ \E keys \in KeyLists : out' = AlgCall("pick", pick(shape, keys), keys, UNDEF)
    /\ pc' = "derived"
    /\ UNCHANGED <<shape, cyc, heap, driver>>

CallOmit ==
    /\ pc = "algebra"
    /\ \E keys \in KeyLists : out' = AlgCall("omit", omit(shape, keys), keys, UNDEF)
    /\ pc' = "derived"
    /\ UNCHANGED <<shape, cyc, heap, driver>>

CallMerge ==
    /\ pc = "algebra"
    /\ \E other \in MergeArgs : out' = AlgCall("merge", merge(shape, other), <<>>, other)
    /\ pc' = "derived"
    /\ UNCHANGED <<shape, cyc, heap, driver>>

\* the returned shape parses an input
ParseDerived ==
    /\ pc = "derived"
    /\ \E v \in InputsFor(out.derived) :
          out' = [out EXCEPT !.target = "derived", !.input = v,
                             !.res = Parse(out.derived, v, NoOpts)]
    /\ pc' = "parsed"
    /\ UNCHANGED <<shape, cyc, heap, driver>>

\* the receiver parses an input after the call
ParseReceiver ==
    /\ pc = "derived"
    /\ \E v \in InputsFor(shape) :
          out' = [out EXCEPT !.target = "receiver", !.input = v,
                             !.res = Parse(shape, v, NoOpts)]
    /\ pc' = "parsed"
    /\ UNCHANGED <<shape, cyc, heap, driver>>

AlgNext ==
    \/ CallPartial
    \/ CallDeepPartial
    \/ CallPick
    \/ CallOmit
    \/ CallMerge
    \/ ParseDerived
    \/ ParseReceiver

SpecAlgebra == AlgInit /\ [][AlgNext]_vars

-----------------------------------------------------------------------------
(* Shapes as objects on a heap: which shape holds which _operations array *)
(*                                                                         *)
(* heap.lists[a] is the content of array a; heap.shapes[i] says which array *)
(* the _operations field of shape object i refers to, and which shape it   *)
(* was cloned from (0 for the shape the factory made).                     *)

MaxShapes == 3

OpsOf(h, i) == h.lists[h.shapes[i].ops]

\* a variant of _clone that leaves out the copy of _operations: after
\* Object.assign the clone refers to the receiver's array
cloneSharingOperations(h, i) ==
    [lists |-> h.lists,
     shapes |-> Append(h.shapes, [ops |-> h.shapes[i].ops, from |-> i])]

\* _clone: Object.assign(clone, this); clone._operations = [...this._operations]
cloneObject(h, i) ==
    [lists |-> Append(h.lists, OpsOf(h, i)),
     shapes |-> Append(h.shapes, [ops |-> Len(h.lists) + 1, from |-> i])]

\* transform(fn) on shape object i: newShape._operations.unshift(...)
heapTransform(h, i, fn) ==
    LET c == cloneObject(h, i)
        a == c.shapes[Len(c.shapes)].ops
    IN  [c EXCEPT !.lists[a] = <<TransformOp(fn, Len(@) + 1)>> \o @]

\* refine(fn) on shape object i: this._operations.push(...)
heapRefine(h, i, fn) ==
    [h EXCEPT !.lists[h.shapes[i].ops] = Append(@, RefineOp(fn, Len(@) + 1))]

\* c.number(): one shape object with an empty _operations array
AliasInit ==
    /\ shape = NumberShape
    /\ pc = "alias"
    /\ out = NoCall
    /\ cyc = CycIdle
    /\ heap = [lists |-> << <<>> >>, shapes |-> <<[ops |-> 1, from |-> 0]>>]
    /\ driver = NoDriver

HeapTransform ==
    /\ pc = "alias"
    /\ Len(heap.shapes) < MaxShapes
    /\ \E i \in 1..Len(heap.shapes), fn \in {"inc", "dbl"} :
          /\ Len(OpsOf(heap, i)) < MaxOps
          /\ heap' = heapTransform(heap, i, fn)
          /\ out' = [op |-> "transform", receiver |-> i,
                     returned |-> Len(heap.shapes) + 1]
    /\ UNCHANGED <<shape, pc, cyc, driver>>

HeapRefine ==
    /\ pc = "alias"
    /\ \E i \in 1..Len(heap.shapes), fn \in {"even", "lt3"} :
          /\ Len(OpsOf(heap, i)) < MaxOps
          /\ heap' = heapRefine(heap, i, fn)
          /\ out' = [op |-> "refine", receiver |-> i, returned |-> i]
    /\ UNCHANGED <<shape, pc, cyc, driver>>

AliasNext ==
    \/ HeapTransform
    \/ HeapRefine

SpecAlias == AliasInit /\ [][AliasNext]_vars

-----------------------------------------------------------------------------
(* The JSON driver: a ConfigJS instance over a file, a cache that expires
   and writes that are delayed, both by timers *)

\* config.delay, in clock ticks
Delay == 2

MaxClock == 4

MaxTimers == 3

\* the paths of the configured shapes: { port: c.number(), retries: c.number() }
Paths == {"port", "retries"}

\* new ConfigJS(jsonDriver, shapes): the constructor runs processShapes
Shapes ==
    processShapes(<<[k |-> "port", s |-> NumberShape],
                    [k |-> "retries", s |-> NumberShape]>>)

\* ConfigJS.getSchema
getSchema(path) == Shapes[CHOOSE i \in 1..Len(Shapes) : Shapes[i].k = path].s

\* a JSON object over the configured paths; UNDEF marks a key that is absent
EmptyObject == [k \in Paths |-> UNDEF]

\* JSON.parse(JSON.stringify(v)) of one property value
JsonValue(v) == IF v = NaN THEN NULL ELSE v

readJsonFile(d) == d.file

\* writeJsonFile: JSON.stringify({ ...readJsonFile(path), ...data })
writeJsonFile(d, data) ==
    [d EXCEPT !.file = [k \in Paths |->
        JsonValue(IF data[k] # UNDEF THEN data[k] ELSE readJsonFile(d)[k])]]

\* set cached(data): this.#cache = data; this.cached_at = Date.now()
SetCached(d, data) == [d EXCEPT !.cached = data, !.cached_at = d.now]

\* this.cached[shape._prop] = newValue: the cached object is changed in
\* place, the setter of cached is not called
Store(d, path, v) == [d EXCEPT !.cached[path] = v]

\* contents = Object(this.cached || readJsonFile(...));
\* if (!this.cached) this.cached = contents
Contents(d) ==
    IF d.cached = UNDEF THEN SetCached(d, readJsonFile(d)) ELSE d

NoSave == [present |-> FALSE]

Save(path, v) == [present |-> TRUE, data |-> [EmptyObject EXCEPT ![path] = v]]

\* fileDelay: the timer remembers cached_at as it is when it is created
fileDelay(d, save) ==
    [d EXCEPT !.timers = Append(@, [cached_at |-> d.cached_at,
                                     due |-> d.now + Delay, save |-> save])]

\* the callback of fileDelay's timer
TimerCallback(d, t) ==
    LET w == IF t.save.present THEN writeJsonFile(d, t.save.data) ELSE d
    IN  IF w.cached_at # t.cached_at THEN w ELSE SetCached(w, UNDEF)

\* contents[conf.prop] ?? contents[conf.key]
RawValue(contents, s) ==
    IF contents[s.prop] \notin {UNDEF, NULL} THEN contents[s.prop] ELSE contents[s.key]

\* shape.parse(rawValue) ?? conf.default, inside try / catch
ParsedOrDefault(s, r) ==
    IF ~r.ok THEN s.default
    ELSE IF r.v \in {UNDEF, NULL} THEN s.default ELSE r.v

\* the value jsonDriver.get returns for rawValue
GetValue(s, rawValue) ==
    IF rawValue = UNDEF THEN s.default
    ELSE ParsedOrDefault(s, Parse(s, rawValue, NoOpts))

\* jsonDriver.get: the driver after the call and the value returned
driverGet(d, s) ==
    [d |-> fileDelay(Contents(d), NoSave),
     res |-> GetValue(s, RawValue(Contents(d).cached, s))]

\* jsonDriver.set
driverSet(d, s, newValue) ==
    fileDelay(Store(Contents(d), s.prop, newValue), Save(s.prop, newValue))

\* jsonDriver.del: contents is the cached object, written after the deletes
driverDel(d, s) ==
    LET c == fileDelay(Contents(d), NoSave)
        e == [c EXCEPT !.cached[s.prop] = UNDEF, !.cached[s.key] = UNDEF]
    IN  writeJsonFile(e, e.cached)

\* jsonDriver.has: the driver after the call and the value returned
driverHas(d, s) ==
    [d |-> fileDelay(Contents(d), NoSave),
     res |-> Contents(d).cached[s.prop] # UNDEF \/ Contents(d).cached[s.key] # UNDEF]

SetValues == {Num(1), Num(2)}

\* the file before the instance is used: missing, or written by an earlier run
DriverInit ==
    /\ shape = NumberShape
    /\ pc = "driver"
    /\ out = NoCall
    /\ cyc = CycIdle
    /\ heap = NoHeap
    /\ \E file \in {EmptyObject, [EmptyObject EXCEPT !["port"] = Num(0)]} :
          driver = [run |-> "json", now |-> 1, cached |-> UNDEF, cached_at |-> 0,
                    file |-> file, timers |-> <<>>, last |-> EmptyObject,
                    deleted |-> {}]

\* config.get(path)
DriverGet ==
    /\ pc = "driver"
    /\ Len(driver.timers) < MaxTimers
    /\ \E path \in Paths :
          LET g == driverGet(driver, getSchema(path))
          IN  /\ driver' = g.d
              /\ out' = [op |-> "get", path |-> path, res |-> g.res]
    /\ UNCHANGED <<shape, pc, cyc, heap>>

\* config.has(path)
DriverHas ==
    /\ pc = "driver"
    /\ Len(driver.timers) < MaxTimers
    /\ \E path \in Paths :
          LET h == driverHas(driver, getSchema(path))
          IN  /\ driver' = h.d
              /\ out' = [op |-> "has", path |-> path, res |-> h.res]
    /\ UNCHANGED <<shape, pc, cyc, heap>>

\* config.set(path, value); last[path] records the value set
DriverSet ==
    /\ pc = "driver"
    /\ Len(driver.timers) < MaxTimers
    /\ \E path \in Paths, v \in SetValues :
          /\ driver' = [driverSet(driver, getSchema(path), v)
                           EXCEPT !.last[path] = v, !.deleted = @ \ {path}]
          /\ out' = [op |-> "set", path |-> path, res |-> v]
    /\ UNCHANGED <<shape, pc, cyc, heap>>

\* config.del(path); deleted holds the paths deleted and not set since
DriverDel ==
    /\ pc = "driver"
    /\ Len(driver.timers) < MaxTimers
    /\ \E path \in Paths :
          /\ driver' = [driverDel(driver, getSchema(path))
                           EXCEPT !.last[path] = UNDEF,
                                  !.deleted = @ \cup {path}]
          /\ out' = [op |-> "del", path |-> path, res |-> UNDEF]
    /\ UNCHANGED <<shape, pc, cyc, heap>>

\* the oldest timer runs, at its due time or later
TimerFires ==
    /\ pc = "driver"
    /\ driver.timers # <<>>
    /\ driver.now >= Head(driver.timers).due
    /\ driver' = [TimerCallback(driver, Head(driver.timers))
                     EXCEPT !.timers = Tail(driver.timers)]
    /\ out' = [op |-> "timer"]
    /\ UNCHANGED <<shape, pc, cyc, heap>>

\* Date.now() advances
Tick ==
    /\ pc = "driver"
    /\ driver.now < MaxClock
    /\ driver' = [driver EXCEPT !.now = @ + 1]
    /\ UNCHANGED <<shape, pc, out, cyc, heap>>

DriverNext ==
    \/ DriverGet
    \/ DriverHas
    \/ DriverSet
    \/ DriverDel
    \/ TimerFires
    \/ Tick

SpecDriver == DriverInit /\ [][DriverNext]_vars

-----------------------------------------------------------------------------
(* ObjectShape.parse as a call stack, on shapes and inputs that may be cyclic *)
(*                                                                         *)
(* A shape graph gives, for each Object shape, what its one field `next`   *)
(* holds: another Object shape of the graph, c.array of one, or the leaf   *)
(* c.number().  An input graph gives, for each input object, what its key  *)
(* `next` holds: another object of the graph, a one-element array holding  *)
(* one, or the number 5.  A shape that contains itself arises when the     *)
(* field map handed to c.object is filled in after construction: the       *)
(* constructor keeps the map by reference.                                 *)

Direct(n) == [via |-> "direct", to |-> n]

InArray(n) == [via |-> "array", to |-> n]

Leaf == [via |-> "leaf", to |-> 0]

ShapeGraphs ==
    {<<Direct(1)>>, <<Direct(2), Direct(1)>>, <<Direct(2), Leaf>>, <<Leaf>>,
     <<InArray(1)>>, <<InArray(2), Leaf>>, <<Direct(2), Direct(3), Leaf>>}

InputGraphs ==
    {<<Direct(1)>>, <<Direct(2), Direct(1)>>, <<Direct(2), Leaf>>, <<Leaf>>,
     <<InArray(1)>>, <<InArray(2), Leaf>>, <<Direct(2), Direct(3), Direct(1)>>}

\* the node reached from node n by following `next` k times, 0 past a leaf
RECURSIVE Walk(_, _, _)
Walk(g, n, k) ==
    IF k = 0 \/ n = 0 THEN n
    ELSE Walk(g, IF g[n].via = "leaf" THEN 0 ELSE g[n].to, k - 1)

\* the root of the graph contains itself, directly or indirectly
Cyclic(g) == \E k \in 1..Len(g) : Walk(g, 1, k) = 1

ParseFrame(s, o, cache) ==
    [fn |-> "parse", s |-> s, o |-> o, at |-> "defaults", merged |-> 0, cache |-> cache]

DefaultsFrame(s) ==
    [fn |-> "getDefaults", s |-> s, o |-> 0, at |-> "enter", merged |-> 0, cache |-> 0]

\* ArrayShape.parse with the parseWithPath and parseWithDefault of its element
ArrayFrame(s, o) ==
    [fn |-> "parseArray", s |-> s, o |-> o, at |-> "elem", merged |-> 0, cache |-> 0]

Top(stack) == stack[Len(stack)]

Pop(stack) == SubSeq(stack, 1, Len(stack) - 1)

SetTop(stack, at) == [stack EXCEPT ![Len(stack)].at = at]

Running == cyc.run = "running" /\ cyc.stack # <<>>

\* a call made when the engine's stack is full raises RangeError instead
Full == Len(cyc.stack) >= MaxStack

CycInit ==
    /\ shape = NumberShape
    /\ pc = "cycle"
    /\ out = NoCall
    /\ heap = NoHeap
    /\ driver = NoDriver
    /\ \E sg \in ShapeGraphs, ig \in InputGraphs :
          cyc = [run |-> "running", sg |-> sg, ig |-> ig,
                 stack |-> <<ParseFrame(1, 1, 1)>>, cached |-> {}, fresh |-> 1,
                 maps |-> 1, hits |-> 0, result |-> "none"]

\* const shape_defaults = this.getDefaults()
GetDefaultsCall ==
    /\ Running /\ ~Full
    /\ Top(cyc.stack).fn = "parse" /\ Top(cyc.stack).at = "defaults"
    /\ cyc' = [cyc EXCEPT !.stack =
                  Append(SetTop(cyc.stack, "guard"), DefaultsFrame(Top(cyc.stack).s))]
    /\ UNCHANGED <<shape, pc, out, heap, driver>>

\* getDefaults: a field that is an Object shape is asked for its defaults in
\* turn; of any other shape the _default is read
GetDefaultsStep ==
    /\ Running
    /\ Top(cyc.stack).fn = "getDefaults"
    /\ LET f == Top(cyc.stack)
           child == cyc.sg[f.s]
       IN  IF f.at = "enter" /\ child.via = "direct"
           THEN /\ ~Full
                /\ cyc' = [cyc EXCEPT !.stack =
                              Append(SetTop(cyc.stack, "exit"), DefaultsFrame(child.to))]
           ELSE cyc' = [cyc EXCEPT !.stack = Pop(cyc.stack)]
    /\ UNCHANGED <<shape, pc, out, heap, driver>>

\* merged = { ... } is a new object; cached.has(merged), cached.set(merged, ...)
CycleGuard ==
    /\ Running
    /\ Top(cyc.stack).fn = "parse" /\ Top(cyc.stack).at = "guard"
    /\ LET merged == cyc.fresh
           cache == Top(cyc.stack).cache
       IN  IF <<cache, merged>> \in cyc.cached
           THEN cyc' = [cyc EXCEPT !.stack = Pop(cyc.stack), !.hits = @ + 1,
                                   !.fresh = @ + 1]
           ELSE cyc' = [cyc EXCEPT
                           !.stack = [SetTop(cyc.stack, "field") EXCEPT
                                         ![Len(cyc.stack)].merged = merged],
                           !.cached = @ \cup {<<cache, merged>>},
                           !.fresh = @ + 1]
    /\ UNCHANGED <<shape, pc, out, heap, driver>>

\* the field `next` calls a parse of its own: of an Object shape on an object,
\* of an Array shape on an array
FieldCalls(f) ==
    LET child == cyc.sg[f.s]
        val == cyc.ig[f.o]
    IN  child.via # "leaf" /\ child.via = val.via

\* the field loop: shape.parse(resolvedVal, {..., meta: {..., cached}}) on the
\* value of `next`
ParseField ==
    /\ Running
    /\ Top(cyc.stack).fn = "parse" /\ Top(cyc.stack).at = "field"
    /\ LET f == Top(cyc.stack)
           child == cyc.sg[f.s]
           val == cyc.ig[f.o]
       IN  IF FieldCalls(f)
           THEN /\ ~Full
                /\ cyc' = [cyc EXCEPT !.stack =
                              Append(SetTop(cyc.stack, "done"),
                                     IF child.via = "direct"
                                     THEN ParseFrame(child.to, val.to, f.cache)
                                     ELSE ArrayFrame(child.to, val.to))]
           ELSE cyc' = [cyc EXCEPT !.stack = SetTop(cyc.stack, "done")]
    /\ UNCHANGED <<shape, pc, out, heap, driver>>

\* value.map: this._shape.parseWithPath(item, ...) hands the element to parse
\* without options, so the element's parse starts a cache of its own
ParseElement ==
    /\ Running
    /\ Top(cyc.stack).fn = "parseArray"
    /\ LET f == Top(cyc.stack)
       IN  IF f.at = "elem"
           THEN /\ ~Full
                /\ cyc' = [cyc EXCEPT
                              !.stack = Append(SetTop(cyc.stack, "done"),
                                               ParseFrame(f.s, f.o, cyc.maps + 1)),
                              !.maps = @ + 1]
           ELSE cyc' = [cyc EXCEPT !.stack = Pop(cyc.stack)]
    /\ UNCHANGED <<shape, pc, out, heap, driver>>

\* cached.delete(merged) and the return or throw that ends the call
ParseReturn ==
    /\ Running
    /\ Top(cyc.stack).fn = "parse" /\ Top(cyc.stack).at = "done"
    /\ cyc' = [cyc EXCEPT
                  !.cached = @ \ {<<Top(cyc.stack).cache, Top(cyc.stack).merged>>},
                  !.stack = Pop(cyc.stack),
                  !.run = IF Len(cyc.stack) = 1 THEN "returned" ELSE @,
                  !.result = IF Len(cyc.stack) = 1 THEN "settled" ELSE @]
    /\ UNCHANGED <<shape, pc, out, heap, driver>>

WantsCall ==
    LET f == Top(cyc.stack)
    IN  \/ f.fn = "parse" /\ f.at = "defaults"
        \/ f.fn = "getDefaults" /\ f.at = "enter" /\ cyc.sg[f.s].via = "direct"
        \/ f.fn = "parse" /\ f.at = "field" /\ FieldCalls(f)
        \/ f.fn = "parseArray" /\ f.at = "elem"

\* the call that does not fit raises RangeError: the catch of a field loop or of
\* parseWithPath further down the stack turns it into a ConfigShapeError, the
\* getDefaults call of the outermost parse is in no try block
StackOverflow ==
    /\ Running /\ Full /\ WantsCall
    /\ cyc' = [cyc EXCEPT
                  !.run = "returned",
                  !.stack = <<>>,
                  !.cached = {},
                  !.result =
                     IF \A i \in 2..Len(cyc.stack) : cyc.stack[i].fn = "getDefaults"
                     THEN "RangeError" ELSE "RangeErrorCaught"]
    /\ UNCHANGED <<shape, pc, out, heap, driver>>

CycNext ==
    \/ GetDefaultsCall
    \/ GetDefaultsStep
    \/ CycleGuard
    \/ ParseField
    \/ ParseElement
    \/ ParseReturn
    \/ StackOverflow

SpecCycle == CycInit /\ [][CycNext]_vars

-----------------------------------------------------------------------------
(* The claims *)

Parsed == out.op = "parse"

\* C1: safeParse never throws; it reports success with the value parse returns
\* exactly when parse returns, and failure with the error parse throws exactly
\* when parse throws.
C1_SafeParseMirrorsParse ==
    out.op = "safeParse" =>
        LET r == Parse(shape, out.input, NoOpts)
        IN  /\ ~out.res.threw
            /\ out.res.success = r.ok
            /\ r.ok => out.res.value = r.v /\ out.res.error = UNDEF
            /\ ~r.ok => out.res.error = r.e /\ out.res.value = UNDEF

\* safeParse has caught an error that is not the engine's own type
C1_Witness ==
    /\ out.op = "safeParse"
    /\ ~out.res.success
    /\ out.res.error.cls = "AggregateError"

\* the fields of an Object shape whose own processing of the input fails
FailedFields(s, value) ==
    LET merged == Spread(Spread(getDefaults(s), SpreadOf(s.default)), value.f)
    IN  {i \in 1..Len(s.shape) :
            /\ ~(s.partial /\ s.shape[i].k \notin DOMAIN merged)
            /\ ~(IsShape(s.shape[i].s) /\ s.shape[i].s.type = "object"
                    /\ s.shape[i].k \notin DOMAIN value.f)
            /\ TryField(s, value, merged, NoOpts, s.shape[i], s.shape[i].k).kind = "throw"}

FieldError(s, value, i) ==
    TryField(s, value, Spread(Spread(getDefaults(s), SpreadOf(s.default)), value.f),
             NoOpts, s.shape[i], s.shape[i].k).e

\* C2: an Object shape that parses a plain object throws the error of the one
\* field that failed, or one aggregate error listing exactly the failures of the
\* k >= 2 fields that failed, each with its field path.
C2_FieldErrorsReported ==
    (Parsed /\ shape.type = "object" /\ out.input.t = "object") =>
        LET failed == FailedFields(shape, out.input)
            k == Cardinality(failed)
        IN  /\ k = 1 => \A i \in failed : out.res = Throw(FieldError(shape, out.input, i))
            /\ k >= 2 =>
                  /\ ~out.res.ok
                  /\ out.res.e.cls = "AggregateError"
                  /\ Len(out.res.e.errors) = k
                  /\ \A i \in failed : \E j \in 1..k :
                        /\ out.res.e.errors[j] = FieldError(shape, out.input, i)
                        /\ out.res.e.errors[j].path = shape.shape[i].k

\* the dotted paths, from the root, of the leaf fields of an object input that
\* are missing though required, or are of the wrong type
RECURSIVE FailingPaths(_, _, _)
FailingPaths(s, value, prefix) ==
    UNION {
        LET c == s.shape[i].s
            k == s.shape[i].k
            at == IF prefix # "" THEN prefix \o "." \o k ELSE k
            present == k \in DOMAIN value.f
            v == IF present THEN value.f[k] ELSE UNDEF
        IN  IF ~IsShape(c) THEN {}
            ELSE IF c.type = "object"
                 THEN IF v.t = "object" THEN FailingPaths(c, v, at) ELSE {}
            ELSE IF v = UNDEF
                 THEN IF c.default = UNDEF /\ ~c.optional /\ ~s.partial THEN {at} ELSE {}
            ELSE IF v.t # c.type THEN {at} ELSE {}
        : i \in 1..Len(s.shape)}

PlainRoot == shape \in Roots

\* C3: when one field nested in Object shapes is missing or of the wrong type,
\* the error thrown has the full dotted path of that field from the root.
C3_NestedErrorPath ==
    (Parsed /\ PlainRoot /\ shape.type = "object" /\ out.input.t = "object") =>
        \A p \in FailingPaths(shape, out.input, "") :
            (FailingPaths(shape, out.input, "") = {p} /\ ~out.res.ok
                /\ IsConfigShapeError(out.res.e)
                /\ out.res.e.code \in {"NOT_NUMBER", "NOT_STRING", "MISSING_PROPERTY",
                                       "NOT_NULLABLE"})
            => out.res.e.path = p

\* the index of the first element the element shape rejects, or 0
FirstRejected(s, value) ==
    LET bad == {i \in 1..Len(value.e) : ~Parse(s.elem, value.e[i], NoOpts).ok}
    IN  IF bad = {} THEN 0 ELSE CHOOSE i \in bad : \A j \in bad : i <= j

\* the path is the index of element i in brackets, after the array's prop or
\* after nothing
EndsInIndex(path, i) ==
    \E pre \in {"", shape.prop} : path = pre \o "[" \o ToString(i - 1) \o "]"

\* C4: when the element shape rejects element i of an array, the error thrown by
\* the Array shape has a path ending in [i]: ["a", 5, "c"] against Array(String)
\* gives [1].
C4_ElementErrorPath ==
    (Parsed /\ PlainRoot /\ shape.type = "array" /\ IsShape(shape.elem)
        /\ out.input.t = "array") =>
        LET i == FirstRejected(shape, out.input)
        IN  i # 0 =>
              /\ ~out.res.ok
              /\ IsConfigShapeError(out.res.e)
              /\ EndsInIndex(out.res.e.path, i)

ParseDepth == Cardinality({i \in 1..Len(cyc.stack) : cyc.stack[i].fn = "parse"})

\* C5: when an Object shape that contains itself parses an input object that
\* references itself, the call stack is never exhausted and the parse calls in
\* flight never outnumber the distinct objects of the input.
C5_CycleBounded ==
    (cyc.run # "idle" /\ Cyclic(cyc.sg) /\ Cyclic(cyc.ig)) =>
        /\ ParseDepth <= Len(cyc.ig)
        /\ cyc.result \notin {"RangeError", "RangeErrorCaught"}

\* the value a refinement sees after the operations that ran before it
RECURSIVE Upto(_, _)
Upto(log, j) ==
    IF j = 1 THEN log[1].seen
    ELSE IF log[j - 1].type = "transform"
         THEN TransformFn((CHOOSE op \in {shape.ops[i] : i \in 1..Len(shape.ops)} :
                               op.n = log[j - 1].n).fn, Upto(log, j - 1))
         ELSE Upto(log, j - 1)

RanBefore(log, j, n) == \E i \in 1..(j - 1) : log[i].n = n

OpAdded(s, n) == CHOOSE op \in {s.ops[i] : i \in 1..Len(s.ops)} : op.n = n

\* C7: with two transforms t1 then t2 added and nothing else, parse of a number
\* returns t2(t1(v)).
C7_TransformsInOrderAdded ==
    (Parsed /\ shape.type = "number" /\ Len(shape.ops) = 2
        /\ \A i \in 1..2 : shape.ops[i].type = "transform"
        /\ ~NumberPre(shape, out.input).done /\ out.res.ok /\ ~shape.important) =>
        out.res.v = TransformFn(OpAdded(shape, 2).fn,
                        TransformFn(OpAdded(shape, 1).fn, NumberPre(shape, out.input).v))

Accepting(s, value) == {i \in 1..Len(s.shapes) : Parse(s.shapes[i], value, NoOpts).ok}

\* C8: a Union shape returns what its earliest accepting candidate returns; when
\* none accepts it throws NO_MATCHING_UNION_MEMBER with one entry per candidate.
C8_UnionFirstMatch ==
    (Parsed /\ shape.type = "union") =>
        LET acc == Accepting(shape, out.input)
        IN  /\ acc # {} =>
                  LET first == CHOOSE i \in acc : \A j \in acc : i <= j
                  IN  out.res = Parse(shape.shapes[first], out.input, NoOpts)
            /\ acc = {} =>
                  /\ ~out.res.ok
                  /\ out.res.e.code = "NO_MATCHING_UNION_MEMBER"
                  /\ Len(out.res.e.meta) = Len(shape.shapes)

\* getShapeDefault of functions.ts
getShapeDefault(s) ==
    IF s.default # UNDEF THEN s.default
    ELSE IF s.type = "object" THEN Obj(getDefaults(s))
    ELSE s.default

\* C9: an optional shape with a configured default parses undefined to its
\* computed default; for an Object shape that is getDefaults().
C9_UndefinedGivesDefault ==
    (Parsed /\ out.input = UNDEF /\ shape.optional /\ shape.default # UNDEF
        /\ shape.type \in {"number", "string", "object"}) =>
        out.res = Ret(IF shape.type = "object" THEN Obj(getDefaults(shape))
                      ELSE getShapeDefault(shape))

\* C10: parse of a shape flagged important never returns undefined or null; a
\* required one without a default throws MISSING_PROPERTY or IMPORTANT_PROPERTY
\* on undefined.
C10_ImportantNeverNullish ==
    (Parsed /\ shape.important) =>
        /\ out.res.ok => ~IsNullish(out.res.v)
        /\ (out.input = UNDEF /\ ~shape.optional /\ shape.default = UNDEF) =>
              /\ ~out.res.ok
              /\ out.res.e.code \in {"MISSING_PROPERTY", "IMPORTANT_PROPERTY"}

\* every declared field is a shape that is optional and has no default
AllFieldsOptional(s) ==
    \A i \in 1..Len(s.shape) :
        /\ IsShape(s.shape[i].s)
        /\ s.shape[i].s.optional
        /\ s.shape[i].s.default = UNDEF

FieldDef(s, k) == s.shape[FieldOf(s, k)].s

\* C12: pick(K) declares exactly the keys K, omit(K) the receiver's keys but K,
\* merge(B) the keys of either, with B's definition for every key B declares.
C12_AlgebraKeys ==
    /\ (pc # "algebra" /\ out.op = "pick") =>
          FieldKeys(out.derived) = Range(out.keys)
    /\ (pc # "algebra" /\ out.op = "omit") =>
          FieldKeys(out.derived) = FieldKeys(out.before) \ Range(out.keys)
    /\ (pc # "algebra" /\ out.op = "merge") =>
          /\ FieldKeys(out.derived) = FieldKeys(out.before) \cup FieldKeys(out.other)
          /\ \A k \in FieldKeys(out.other) :
                FieldDef(out.derived, k) = FieldDef(out.other, k)
          /\ \A k \in FieldKeys(out.before) \ FieldKeys(out.other) :
                FieldDef(out.derived, k) = FieldDef(out.before, k)

\* a merge in which both shapes declare a key, with different definitions
C12_Witness ==
    /\ pc = "derived" /\ out.op = "merge"
    /\ \E k \in FieldKeys(out.before) \cap FieldKeys(out.other) :
          /\ FieldDef(out.before, k) # FieldDef(out.other, k)
          /\ FieldDef(out.derived, k) = FieldDef(out.other, k)

\* C13: partial, pick, omit and merge leave the receiver as it was: the same
\* field map, and the same outcome of parse on every input.
C13_ReceiverUnchanged ==
    (pc \in {"derived", "parsed"} /\ out.op \in {"partial", "pick", "omit", "merge"}) =>
        /\ shape = out.before
        /\ out.target = "receiver" =>
              out.res = Parse(out.before, out.input, NoOpts)

\* the errors an outcome reports: the error thrown, or the members of the
\* aggregate thrown
Reported(res) ==
    IF res.ok THEN {}
    ELSE IF res.e.cls = "AggregateError" THEN Range(res.e.errors)
    ELSE {res.e}

\* the declared keys that are absent from an object input and that neither the
\* field nor the object gives a default
AbsentKeys(s, value) ==
    {k \in FieldKeys(s) :
        /\ k \notin DOMAIN value.f
        /\ IsShape(FieldDef(s, k))
        /\ FieldDef(s, k).default = UNDEF
        /\ ~(s.default # UNDEF /\ k \in DOMAIN s.default.f)}

\* C18: what partial() returns never raises MISSING_PROPERTY on a plain object,
\* at the top level or in a nested Object shape field, and leaves out the
\* absent fields; {} parses to {} when no default fills a field.
C18_PartialNeverMissing ==
    (pc = "parsed" /\ out.op = "partial" /\ out.target = "derived"
        /\ out.input.t = "object") =>
        /\ \A e \in Reported(out.res) :
              ~(IsConfigShapeError(e) /\ e.code = "MISSING_PROPERTY")
        /\ out.res.ok =>
              DOMAIN out.res.v.f \cap AbsentKeys(out.derived, out.input) = {}
        /\ (out.input = EmptyObj /\ AbsentKeys(out.derived, EmptyObj) = FieldKeys(out.derived))
              => out.res = Ret(EmptyObj)

\* the declared keys that are required and absent from an object input: the
\* field is a shape that is not optional and has no default, and the object's
\* own default has no entry for the key
RequiredAbsent(s, value) ==
    {k \in AbsentKeys(s, value) : ~FieldDef(s, k).optional}

\* C17: for every required field absent from a plain-object input, an Object
\* shape that is not partial raises MISSING_PROPERTY for that field, whatever
\* the kind of the field's shape.
C17_RequiredAbsentRaises ==
    (Parsed /\ shape.type = "object" /\ ~shape.partial /\ out.input.t = "object") =>
        \A k \in RequiredAbsent(shape, out.input) :
            \E e \in Reported(out.res) :
                /\ IsConfigShapeError(e)
                /\ e.code = "MISSING_PROPERTY"
                /\ e.message = "Missing required property \"" \o k \o "\""

\* C19: an Object shape with an object-level default parses undefined to what
\* it parses {} to: the same keys with the same values.
C19_UndefinedAsEmptyObject ==
    (Parsed /\ shape.type = "object" /\ shape.default # UNDEF /\ out.input = UNDEF) =>
        out.res = Parse(shape, EmptyObj, NoOpts)

\* neither the shape nor a shape inside it has a transform
RECURSIVE NoTransforms(_)
NoTransforms(s) ==
    IF ~IsShape(s) THEN TRUE
    ELSE /\ ~HasTransform(s)
         /\ s.pretransforms = <<>>
         /\ CASE s.type = "object" ->
                    \A i \in 1..Len(s.shape) : NoTransforms(s.shape[i].s)
              [] s.type = "array" -> NoTransforms(s.elem)
              [] s.type = "union" ->
                    \A i \in 1..Len(s.shapes) : NoTransforms(s.shapes[i])
              [] OTHER -> TRUE

\* C15: a shape without transforms that accepts an input accepts what it
\* returned for it, and returns it unchanged.
C15_ParseIdempotent ==
    (Parsed /\ NoTransforms(shape) /\ out.res.ok) =>
        Parse(shape, out.res.v, NoOpts) = out.res

\* the function of the operation that ran last in NumberShape.parse
LastFn == OpAdded(shape, out.log[Len(out.log)].n).fn

\* C16: an error that escapes parse is a ConfigShapeError; when a transform or
\* a refinement predicate of the caller throws, it has the code TRANSFORM_ERROR
\* or VALIDATION_ERROR and the message of the exception thrown.
C16_OnlyStructuredErrors ==
    Parsed =>
        /\ ~out.res.ok => IsConfigShapeError(out.res.e)
        /\ (shape.type = "number" /\ out.log # <<>> /\ FnThrows(LastFn, UNDEF)) =>
              /\ ~out.res.ok
              /\ out.res.e.code \in {"VALIDATION_ERROR", "TRANSFORM_ERROR"}
              /\ out.res.e.message = Boom.message

\* C14: transform leaves the operation list of its receiver as it was, and the
\* list of a shape changes only by a refine called on that very shape: what is
\* added to the returned shape never shows in the receiver, nor the reverse.
C14_TransformLeavesReceiver ==
    [][\A i \in 1..Len(heap.shapes) :
          OpsOf(heap', i) # OpsOf(heap, i) =>
              (out'.op = "refine" /\ out'.receiver = i)]_vars

\* a shape returned by transform from a receiver that had an operation has
\* since been given one more, and the receiver has been given another
C14_Witness ==
    /\ pc = "alias"
    /\ \E j \in 1..Len(heap.shapes) :
          LET i == heap.shapes[j].from
          IN  /\ i # 0
              /\ Len(OpsOf(heap, j)) = 2
              /\ OpsOf(heap, j)[1].type = "transform"
              /\ OpsOf(heap, j)[2].type = "refine"
              /\ Len(OpsOf(heap, i)) = 1
              /\ OpsOf(heap, i)[1] # OpsOf(heap, j)[2]


\* C20: a get(k) that follows a set(k, v), with no set or del of k in
\* between, returns v, whenever the driver's timers run
C20_GetReturnsLastSet ==
    (pc = "driver" /\ out.op = "get" /\ driver.last[out.path] # UNDEF)
        => out.res = driver.last[out.path]


\* C21: after del(k), and until k is set again, has(k) is false and get(k)
\* yields the shape's default, whichever timers have run in between
C21_DeletedStaysDeleted ==
    (pc = "driver" /\ out.op \in {"get", "has"} /\ out.path \in driver.deleted)
        => out.res = (IF out.op = "has" THEN FALSE ELSE getSchema(out.path).default)


\* C22: on a Number or String shape with a default d, falsy or not,
\* parse(undefined) is what the shape's parse makes of d
C22_DefaultSubstituted ==
    (pc = "called" /\ out.op = "parse" /\ out.input = UNDEF
        /\ shape.type \in {"number", "string"} /\ shape.default # UNDEF)
        => out.res = Parse(shape, shape.default, NoOpts)


\* C23: on a Number, String or Enum shape, an optional shape without default
\* parses undefined to undefined, and a nullable shape parses null to null
C23_OptionalNullableShortCircuit ==
    (pc = "called" /\ out.op = "parse" /\ shape.type \in {"number", "string", "enum"})
        => /\ (out.input = UNDEF /\ shape.optional /\ shape.default = UNDEF
                   /\ shape.pretransforms = <<>>)
                => out.res = Ret(UNDEF)
           /\ (out.input = NULL /\ shape.nullable) => out.res = Ret(NULL)


\* the failures a nested Object field reports together when it is parsed
\* on its own under its path
NestedFailures(s, value) ==
    UNION {LET r == Parse(s.shape[i].s, value.f[s.shape[i].k], Opts(s.shape[i].k))
           IN  IF ~r.ok /\ r.e.cls = "AggregateError"
               THEN {r.e.errors[j] : j \in 1..Len(r.e.errors)} ELSE {}
           : i \in {j \in 1..Len(s.shape) :
                      /\ IsShape(s.shape[j].s) /\ s.shape[j].s.type = "object"
                      /\ s.shape[j].k \in DOMAIN value.f
                      /\ value.f[s.shape[j].k] \notin {UNDEF, NULL}}}

\* err is e, or an aggregate that holds an error exposing e
RECURSIVE Exposes(_, _)
Exposes(err, e) ==
    \/ err = e
    \/ /\ err.cls = "AggregateError"
       /\ \E i \in 1..Len(err.errors) : Exposes(err.errors[i], e)

\* C24: when a nested Object field has two or more invalid fields, the error
\* of the outer parse exposes each nested failure, code and dotted path
C24_NestedFailuresPreserved ==
    (pc = "called" /\ out.op = "parse" /\ shape.type = "object"
        /\ out.input.t = "object")
        => \A e \in NestedFailures(shape, out.input) :
              ~out.res.ok /\ Exposes(out.res.e, e)


\* what the field loop of an Object shape leaves for a plain-object input
LoopOf(s, value) ==
    FieldLoop(s, value, Spread(Spread(getDefaults(s), SpreadOf(s.default)), value.f),
              NoOpts, 1, <<>>, <<>>)

TooFew == ConfigShapeError("TOO_FEW_PROPERTIES",
                           "Object must have at least n properties", "", <<>>)

\* C25: when a declared field failed, parse raises the field errors and not
\* a property-count error; otherwise minProperties is compared with the
\* number of keys of the result
C25_CountAfterFieldErrors ==
    (pc = "called" /\ out.op = "parse" /\ shape.type = "object"
        /\ out.input.t = "object")
        => LET loop == LoopOf(shape, out.input)
           IN  IF loop.errors # <<>>
               THEN out.res = Throw(IF Len(loop.errors) = 1 THEN loop.errors[1]
                                    ELSE AggregateError(loop.errors))
               ELSE (out.res = Throw(TooFew))
                       <=> (/\ shape.minProperties # UNDEF
                            /\ Cardinality(DOMAIN loop.entries) < shape.minProperties.n)


\* C26: what deepPartial() returns never raises MISSING_PROPERTY on a plain
\* object, whatever the depth at which a declared field is absent
C26_DeepPartialNeverMissing ==
    (pc = "parsed" /\ out.op = "deepPartial" /\ out.target = "derived"
        /\ out.input.t = "object") =>
        \A e \in Reported(out.res) :
            ~(IsConfigShapeError(e) /\ e.code = "MISSING_PROPERTY")


\* C27: parseWithPath(v, path) succeeds exactly when parse(v) does, and then
\* returns the value parse(v) returns
C27_ParseWithPathAsParse ==
    (pc = "called" /\ out.op = "parseWithPath")
        => /\ out.res.ok <=> Parse(shape, out.input, NoOpts).ok
           /\ out.res.ok => out.res.v = Parse(shape, out.input, NoOpts).v


NotObject == ConfigShapeError("NOT_OBJECT", "Expected an object", "", <<>>)

\* C28: a Record shape raises NOT_OBJECT for every input that is not a plain
\* mapping, an array included, and accepts a mapping only if the key shape
\* accepts each key and the value shape each value
C28_RecordPlainMappingOnly ==
    (pc = "called" /\ out.op = "parse" /\ shape.type = "record")
        => /\ out.input.t \notin {"object", "undefined", "null"}
                => out.res = Throw(NotObject)
           /\ (out.res.ok /\ out.input.t = "object")
                => \A k \in DOMAIN out.input.f :
                      /\ Parse(shape.keyShape, Str(k), NoOpts).ok
                      /\ Parse(shape.valueShape, out.input.f[k], NoOpts).ok

\* two members of arr at different positions are equal by value
HasDuplicates(arr) ==
    \E i, j \in 1..Len(arr) : i # j /\ deepEqual(arr[i], arr[j])

\* the array shape as it is without its unique() refinement
NotUnique(op) == op.fn # "unique"

WithoutUnique(s) == [s EXCEPT !.ops = SelectSeq(@, NotUnique)]

\* C29: an array shape with unique() rejects with DUPLICATE_ITEMS every
\* array, valid but for that, that holds two elements equal by value,
\* objects and arrays included
C29_UniqueRejectsEqualElements ==
    (pc = "called" /\ out.op = "parse" /\ shape.type = "array" /\ HasUnique(shape)
        /\ out.input.t = "array" /\ HasDuplicates(out.input.e)
        /\ Parse(WithoutUnique(shape), out.input, NoOpts).ok)
        => ~out.res.ok /\ out.res.e.code = "DUPLICATE_ITEMS"


\* every shape below s has its dotted path from the root, which starts with
\* prefix, as _key and as _prop
RECURSIVE KeyedByPath(_, _)
KeyedByPath(s, prefix) ==
    \A i \in 1..Len(s.shape) :
        LET fld == s.shape[i]
            full == IF prefix # "" THEN prefix \o "." \o fld.k ELSE fld.k
        IN  IsShape(fld.s) =>
               /\ fld.s.key = full
               /\ fld.s.prop = full
               /\ fld.s.type = "object" => KeyedByPath(fld.s, full)

\* C30: in a constructed schema every shape has its full dotted path from
\* the root as its key and, no prop() having been called, as its prop
C30_KeysAreDottedPaths ==
    shape.type = "object" => KeyedByPath(shape, "")

====
